---- MODULE Spec2Model ----
(***************************************************************************)
(* A model of the jray ray tracer: geometry intersection, the nearest-hit  *)
(* query, the shading / shadow / reflection recursion of render_ray, the   *)
(* anti-aliasing grid and the pixel loop of render.                        *)
(*                                                                         *)
(* Numbers.  An f64 is modelled as an exact rational n/d in lowest terms   *)
(* (d > 0), extended with the IEEE special values the code can produce:    *)
(* +inf = 1/0, -inf = -1/0 and NaN = 0/0.  Rounding and signed zeros are   *)
(* not modelled; inputs are drawn from values whose square roots are       *)
(* rational, so that every finite value the model computes is exact.       *)
(***************************************************************************)
EXTENDS Integers, Sequences, FiniteSets, TLC

(***************************************************************************)
(* f64 arithmetic                                                          *)
(***************************************************************************)
RECURSIVE GCD(_, _)
GCD(a, b) ==
    IF b = 0 THEN a ELSE GCD(b, a % b)

Abs(i) ==
    IF i < 0 THEN -i ELSE i

Sign(i) ==
    IF i < 0 THEN -1 ELSE IF i > 0 THEN 1 ELSE 0

\* the f64 value n/d (d = 0 gives an infinity or NaN)
F(n, d) ==
    IF d = 0 THEN [n |-> Sign(n), d |-> 0]
    ELSE LET g == GCD(Abs(n), Abs(d))
             s == Sign(d)
         IN  [n |-> (s * n) \div g, d |-> (s * d) \div g]

I(i) ==
    [n |-> i, d |-> 1]

NaN ==
    [n |-> 0, d |-> 0]

Inf ==
    [n |-> 1, d |-> 0]

Zero ==
    I(0)

One ==
    I(1)

IsNaN(a) ==
    a.d = 0 /\ a.n = 0

IsFinite(a) ==
    a.d > 0

FNeg(a) ==
    [n |-> -a.n, d |-> a.d]

FAdd(a, b) ==
    IF a.d = 0 \/ b.d = 0
    THEN IF IsNaN(a) \/ IsNaN(b) THEN NaN
         ELSE IF a.d = 0 /\ b.d = 0 THEN (IF a.n = b.n THEN a ELSE NaN)
         ELSE IF a.d = 0 THEN a ELSE b
    ELSE LET g == GCD(a.d, b.d)
         IN  F(a.n * (b.d \div g) + b.n * (a.d \div g), (a.d \div g) * b.d)

FSub(a, b) ==
    FAdd(a, FNeg(b))

\* the factors are cancelled crosswise first, which keeps the products small
FMul(a, b) ==
    IF a.d = 0 \/ b.d = 0 THEN F(a.n * b.n, 0)
    ELSE LET g1 == GCD(Abs(a.n), b.d)
             g2 == GCD(Abs(b.n), a.d)
         IN  F((a.n \div g1) * (b.n \div g2), (a.d \div g2) * (b.d \div g1))

\* 1/a: 1/0 = +inf, 1/inf = 0, 1/NaN = NaN
FRecip(a) ==
    IF a.n = 0 THEN (IF a.d = 0 THEN NaN ELSE Inf)
    ELSE F(a.d * Sign(a.n), Abs(a.n))

FDiv(a, b) ==
    FMul(a, FRecip(b))

\* an/ad < bn/bd for ad, bd > 0, by comparing the continued fractions, so
\* that no product leaves the 32-bit integers
RECURSIVE RatLess(_, _, _, _)
RatLess(an, ad, bn, bd) ==
    IF an \div ad # bn \div bd THEN an \div ad < bn \div bd
    ELSE IF bn % bd = 0 THEN FALSE
    ELSE IF an % ad = 0 THEN TRUE
    ELSE RatLess(bd, bn % bd, ad, an % ad)

\* every comparison with NaN is false
FLt(a, b) ==
    /\ ~IsNaN(a)
    /\ ~IsNaN(b)
    /\ IF a.d = 0 THEN a.n = -1 /\ b # a
       ELSE IF b.d = 0 THEN b.n = 1
       ELSE RatLess(a.n, a.d, b.n, b.d)

FEq(a, b) ==
    ~IsNaN(a) /\ ~IsNaN(b) /\ a = b

FLe(a, b) ==
    FLt(a, b) \/ FEq(a, b)

FGt(a, b) ==
    FLt(b, a)

FGe(a, b) ==
    FLe(b, a)

\* the largest r in lo..hi with r * r <= i, by bisection
RECURSIVE FloorSqrt(_, _, _)
FloorSqrt(i, lo, hi) ==
    IF lo >= hi THEN lo
    ELSE LET mid == (lo + hi + 1) \div 2
         IN  IF mid * mid <= i THEN FloorSqrt(i, mid, hi)
             ELSE FloorSqrt(i, lo, mid - 1)

\* an upper bound of the root of i: 46340 is the largest integer whose
\* square is a 32-bit integer
RootBound(i) ==
    IF i < 46340 THEN i ELSE 46340

IsSquare(i) ==
    i >= 0 /\ LET r == FloorSqrt(i, 0, RootBound(i)) IN r * r = i

\* the exact root; undefined for an integer that is not a perfect square
ISqrt(i) ==
    CHOOSE r \in {FloorSqrt(i, 0, RootBound(i))} : r * r = i

\* f64::sqrt: NaN for NaN and for negative values
FSqrt(a) ==
    IF IsNaN(a) \/ a.n < 0 THEN NaN
    ELSE IF a.d = 0 THEN Inf
    ELSE [n |-> ISqrt(a.n), d |-> ISqrt(a.d)]

\* f64::min: the other operand when one is NaN
FMin(a, b) ==
    IF IsNaN(a) THEN b
    ELSE IF IsNaN(b) THEN a
    ELSE IF FLt(b, a) THEN b ELSE a

\* f64::clamp: NaN stays NaN
FClamp(a, lo, hi) ==
    IF IsNaN(a) THEN NaN
    ELSE IF FLt(a, lo) THEN lo
    ELSE IF FGt(a, hi) THEN hi ELSE a

\* f64::powf for the natural exponents the scenes use (x^0 = 1, also for NaN)
RECURSIVE FPow(_, _)
FPow(a, e) ==
    IF e = 0 THEN One ELSE FMul(a, FPow(a, e - 1))

(***************************************************************************)
(* vec3.rs                                                                 *)
(***************************************************************************)
Vec3(x, y, z) ==
    <<x, y, z>>

\* a vector with integer components
V(x, y, z) ==
    <<I(x), I(y), I(z)>>

VAdd(a, b) ==
    <<FAdd(a[1], b[1]), FAdd(a[2], b[2]), FAdd(a[3], b[3])>>

VSub(a, b) ==
    <<FSub(a[1], b[1]), FSub(a[2], b[2]), FSub(a[3], b[3])>>

VScale(a, k) ==
    <<FMul(a[1], k), FMul(a[2], k), FMul(a[3], k)>>

dot(a, b) ==
    FAdd(FAdd(FMul(a[1], b[1]), FMul(a[2], b[2])), FMul(a[3], b[3]))

cross(a, b) ==
    <<FSub(FMul(a[2], b[3]), FMul(a[3], b[2])),
      FSub(FMul(a[3], b[1]), FMul(a[1], b[3])),
      FSub(FMul(a[1], b[2]), FMul(a[2], b[1]))>>

magnitude(a) ==
    FSqrt(dot(a, a))

VDivide(a, mag) ==
    <<FDiv(a[1], mag), FDiv(a[2], mag), FDiv(a[3], mag)>>

\* the zero vector normalizes to (NaN, NaN, NaN): 0/0
normalized(a) ==
    VDivide(a, magnitude(a))

reflect(a, normal) ==
    VSub(a, VScale(normal, FMul(I(2), dot(a, normal))))

Ray(o, dir) ==
    [o |-> o, dir |-> dir]

VecFinite(a) ==
    IsFinite(a[1]) /\ IsFinite(a[2]) /\ IsFinite(a[3])

(***************************************************************************)
(* Intersection, Shape                                                     *)
(***************************************************************************)
None ==
    [hit |-> FALSE]

Intersection(distance, point, surface_normal) ==
    [hit |-> TRUE, distance |-> distance, point |-> point,
     surface_normal |-> surface_normal]

Sphere(center, radius) ==
    [kind |-> "Sphere", center |-> center, radius |-> radius]

Plane(point, normal) ==
    [kind |-> "Plane", point |-> point, normal |-> normal]

(***************************************************************************)
(* sphere.rs.  Each step of find_intersection is an operator that receives *)
(* the values computed so far.                                             *)
(***************************************************************************)
NoRoot ==
    [some |-> FALSE]

SomeRoot(t) ==
    [some |-> TRUE, t |-> t]

sphere_a ==
    One

\* b = 2.0 * D.dot(&O_minus_C)
sphere_b(D, O_minus_C) ==
    FMul(I(2), dot(D, O_minus_C))

\* c = O_minus_C.dot(&O_minus_C) - R * R
sphere_c(O_minus_C, R) ==
    FSub(dot(O_minus_C, O_minus_C), FMul(R, R))

sphere_discriminant(b, c) ==
    FSub(FMul(b, b), FMul(FMul(I(4), sphere_a), c))

\* the discriminant == 0.0 branch
sphere_one_root(t) ==
    IF FGe(t, Zero) THEN SomeRoot(t) ELSE NoRoot

\* the two-root branch without its tests for negative roots
sphere_two_roots_unsigned(t0, t1) ==
    SomeRoot(FMin(t0, t1))

\* the two-root branch returning t0 where both roots are in front
sphere_two_roots_far(t0, t1) ==
    IF FLt(t0, Zero)
    THEN IF FLt(t1, Zero) THEN NoRoot ELSE SomeRoot(t1)
    ELSE SomeRoot(t0)

\* the two-root branch
sphere_two_roots(t0, t1) ==
    IF FLt(t0, Zero)
    THEN IF FLt(t1, Zero) THEN NoRoot ELSE SomeRoot(t1)
    ELSE IF FLt(t1, Zero) THEN SomeRoot(t0)
         ELSE SomeRoot(FMin(t0, t1))

sphere_t(b, discriminant) ==
    IF FLt(discriminant, Zero) THEN NoRoot
    ELSE IF FEq(discriminant, Zero)
    THEN sphere_one_root(FDiv(b, FMul(I(-2), sphere_a)))
    ELSE sphere_two_roots(
             FDiv(FSub(FSqrt(discriminant), b), FMul(I(2), sphere_a)),
             FDiv(FAdd(FSqrt(discriminant), b), FMul(I(-2), sphere_a)))

sphere_solve(b, c) ==
    sphere_t(b, sphere_discriminant(b, c))

sphere_root(D, O_minus_C, R) ==
    sphere_solve(sphere_b(D, O_minus_C), sphere_c(O_minus_C, R))

\* t.map(|t| ...): the hit at P
sphere_at(C, t, P) ==
    Intersection(t, P, normalized(VSub(P, C)))

sphere_map(C, r, t) ==
    IF ~t.some THEN None
    ELSE sphere_at(C, t.t, VAdd(r.o, VScale(r.dir, t.t)))

sphere_find_intersection(center, radius, r) ==
    sphere_map(center, r, sphere_root(r.dir, VSub(r.o, center), radius))

(***************************************************************************)
(* Shape::find_intersection                                                *)
(***************************************************************************)
\* plane_at rejecting only distance < 0
plane_at_zero(normal, r, distance) ==
    IF FLt(distance, Zero) THEN None
    ELSE Intersection(distance, VAdd(r.o, VScale(r.dir, distance)), normal)

plane_at(normal, r, distance) ==
    IF FLe(distance, Zero) THEN None
    ELSE Intersection(distance, VAdd(r.o, VScale(r.dir, distance)), normal)

plane_hit(normal, r, p0_minus_l0_dot_n, l_dot_n) ==
    IF FEq(l_dot_n, Zero) THEN None
    ELSE plane_at(normal, r, FDiv(p0_minus_l0_dot_n, l_dot_n))

plane_find_intersection(point, normal, r) ==
    plane_hit(normal, r, dot(VSub(point, r.o), normal), dot(r.dir, normal))

find_intersection(shape, r) ==
    IF shape.kind = "Plane"
    THEN plane_find_intersection(shape.point, shape.normal, r)
    ELSE sphere_find_intersection(shape.center, shape.radius, r)

(***************************************************************************)
(* Scene::closest_intersection                                             *)
(***************************************************************************)
Object(material, shape) ==
    [material |-> material, shape |-> shape]

\* filter_map: an object that is hit yields its (object, intersection) pair
hit_pair(k, i) ==
    IF i.hit THEN <<[index |-> k, i |-> i]>> ELSE <<>>

RECURSIVE intersections(_, _, _)
intersections(objects, ray, k) ==
    IF k > Len(objects) THEN <<>>
    ELSE hit_pair(k, find_intersection(objects[k].shape, ray))
         \o intersections(objects, ray, k + 1)

\* partial_cmp(..).unwrap() panics when either distance is NaN
CmpPanics(i1, i2) ==
    IsNaN(i1.distance) \/ IsNaN(i2.distance)

\* a fold that also replaces the accumulated element on Equal
min_by_pick_last(acc, next) ==
    IF FGe(acc.i.distance, next.i.distance) THEN next ELSE acc

\* the comparison of min_by's fold: the accumulated element is kept unless
\* it compares Greater than the next one
min_by_pick(acc, next) ==
    IF FGt(acc.i.distance, next.i.distance) THEN next ELSE acc

RECURSIVE min_by(_, _, _)
min_by(hits, acc, k) ==
    IF k > Len(hits) THEN [panic |-> FALSE, found |-> TRUE, best |-> acc]
    ELSE IF CmpPanics(acc.i, hits[k].i) THEN [panic |-> TRUE]
    ELSE min_by(hits, min_by_pick(acc, hits[k]), k + 1)

NotFound ==
    [panic |-> FALSE, found |-> FALSE]

\* assert!(i.distance >= 0.0)
closest_assert(closest) ==
    IF closest.panic THEN closest
    ELSE IF closest.found /\ ~FGe(closest.best.i.distance, Zero)
    THEN [panic |-> TRUE]
    ELSE closest

closest_of(hits) ==
    closest_assert(IF hits = <<>> THEN NotFound ELSE min_by(hits, hits[1], 2))

closest_intersection(objects, ray) ==
    closest_of(intersections(objects, ray, 1))

(***************************************************************************)
(* color.rs                                                                *)
(***************************************************************************)
Color(r, g, b) ==
    <<r, g, b>>

BLACK ==
    Color(Zero, Zero, Zero)

WHITE ==
    Color(One, One, One)

BLUE ==
    Color(Zero, Zero, One)

ColorAdd(a, b) ==
    <<FAdd(a[1], b[1]), FAdd(a[2], b[2]), FAdd(a[3], b[3])>>

ColorScale(a, k) ==
    <<FMul(a[1], k), FMul(a[2], k), FMul(a[3], k)>>

ColorMul(a, b) ==
    <<FMul(b[1], a[1]), FMul(b[2], a[2]), FMul(b[3], a[3])>>

\* derived PartialEq: componentwise f64 ==
ColorEq(a, b) ==
    FEq(a[1], b[1]) /\ FEq(a[2], b[2]) /\ FEq(a[3], b[3])

\* `as u8` of a clamped value: truncation, NaN becomes 0
to_u8(a) ==
    IF IsNaN(a) THEN 0 ELSE a.n \div a.d

to_rgb(c) ==
    <<to_u8(FClamp(FMul(I(256), c[1]), Zero, I(255))),
      to_u8(FClamp(FMul(I(256), c[2]), Zero, I(255))),
      to_u8(FClamp(FMul(I(256), c[3]), Zero, I(255)))>>

(***************************************************************************)
(* Material, Light, Scene::light_positions                                 *)
(***************************************************************************)
Material(diffuse_color, specular_color, shininess, reflectivity) ==
    [diffuse_color |-> diffuse_color, specular_color |-> specular_color,
     shininess |-> shininess, reflectivity |-> reflectivity]

Light(point, color, radius, intensity) ==
    [point |-> point, color |-> color, radius |-> radius,
     intensity |-> intensity]

MAX_LIGHT_POINTS ==
    10

light_points ==
    1

revolutions_in_spiral ==
    I(2)

\* f64 PI is itself a rational; theta is 0 for every index the code uses
PI ==
    F(355, 113)

\* cos and sin at the angles that occur: index 0 of a spiral gives theta = 0
FCos(theta) ==
    IF IsNaN(theta) THEN NaN ELSE CHOOSE v \in {One} : FEq(theta, Zero)

FSin(theta) ==
    IF IsNaN(theta) THEN NaN ELSE CHOOSE v \in {Zero} : FEq(theta, Zero)

spiral_position(center_ray, light_radius, count, i) ==
    LET up == V(0, 0, 1)
        right == normalized(cross(center_ray.dir, up))
        scaler == FDiv(I(i), I(count))
        theta == FMul(FMul(FMul(revolutions_in_spiral, scaler), I(2)), PI)
        spiral_radius == FMul(scaler, light_radius)
        up_s == VScale(up, spiral_radius)
        right_s == VScale(right, spiral_radius)
    IN  VAdd(VAdd(center_ray.o, VScale(right_s, FCos(theta))),
             VScale(up_s, FSin(theta)))

\* the spiral samples pushed whatever the radius
light_positions_always(center_ray, light_radius, count) ==
    <<center_ray.o>> \o
    [k \in 1..count |-> spiral_position(center_ray, light_radius, count, k - 1)]

light_positions(center_ray, light_radius, count) ==
    <<center_ray.o>> \o
    (IF FGt(light_radius, Zero)
     THEN [k \in 1..count |->
              spiral_position(center_ray, light_radius, count, k - 1)]
     ELSE <<>>)

(***************************************************************************)
(* Scene::render_ray: lighting and shadows for one light.  Each step is an *)
(* operator that receives the values computed so far.                      *)
(***************************************************************************)
slightly_off_surface(i) ==
    VAdd(i.point, VScale(i.surface_normal, F(1, 1000)))

\* lines 169-178: is the nearest hit of the shadow ray in front of the light
shadow_blocked(shadow, light_distance) ==
    IF shadow.panic THEN [panic |-> TRUE, blocked |-> FALSE]
    ELSE IF ~shadow.found THEN [panic |-> FALSE, blocked |-> FALSE]
    ELSE IF FGt(shadow.best.i.distance, light_distance)
    THEN [panic |-> FALSE, blocked |-> FALSE]
    ELSE [panic |-> FALSE, blocked |-> TRUE]

\* lines 167-169
shadow_ray(objects, origin, light_dir) ==
    shadow_blocked(closest_intersection(objects, Ray(origin, normalized(light_dir))),
                   magnitude(light_dir))

\* one iteration of the loop over light_positions
shadow_sample(objects, i, light_position) ==
    shadow_ray(objects, slightly_off_surface(i), VSub(light_position, i.point))

\* shaded and total after the loop; a panic in any iteration ends the call
shadow_count(positions, samples) ==
    [panic |-> \E k \in 1..Len(positions) : samples[k].panic,
     positions |-> positions,
     shaded |-> Cardinality({k \in 1..Len(positions) : samples[k].blocked}),
     total |-> Len(positions)]

shadow_samples(objects, i, positions) ==
    shadow_count(positions,
                 [k \in 1..Len(positions) |-> shadow_sample(objects, i, positions[k])])

shadow_test(objects, i, l) ==
    shadow_samples(objects, i,
                   light_positions(Ray(l.point, VSub(i.point, l.point)),
                                   l.radius, light_points))

NoPanic ==
    "none"

\* what one iteration of `for l in &self.lights` did: the panic that ended it
\* (NoPanic when it completed), whether the light was skipped, the colour it
\* adds, and the shadow test it ran
LightOut(l, st, unblocked, panic, skipped, c) ==
    [panic |-> panic, skipped |-> skipped, c |-> c, radius |-> l.radius,
     point |-> l.point, positions |-> st.positions, shaded |-> st.shaded,
     total |-> st.total, unblocked |-> unblocked]

\* lines 190-210: the assertions, in the order the code makes them
light_assert(l, st, unblocked, apparent_brightness, diffuse, specular, c) ==
    IF ~FGe(apparent_brightness, Zero)
    THEN LightOut(l, st, unblocked, "apparent_brightness", FALSE, BLACK)
    ELSE IF ~FGe(diffuse, Zero)
    THEN LightOut(l, st, unblocked, "diffuse", FALSE, BLACK)
    ELSE IF ~FGe(specular, Zero)
    THEN LightOut(l, st, unblocked, "specular", FALSE, BLACK)
    ELSE IF ~(FGe(c[1], Zero) /\ FGe(c[2], Zero) /\ FGe(c[3], Zero))
    THEN LightOut(l, st, unblocked, "c", FALSE, BLACK)
    ELSE LightOut(l, st, unblocked, NoPanic, FALSE, c)

\* lines 203-206
light_color(object, l, st, unblocked, apparent_brightness, diffuse, specular) ==
    light_assert(l, st, unblocked, apparent_brightness, diffuse, specular,
        ColorMul(ColorScale(l.color, apparent_brightness),
                 ColorAdd(ColorScale(object.material.diffuse_color, diffuse),
                          ColorScale(object.material.specular_color, specular))))

\* lines 187-200; light_dir is i.point - l.point
light_terms(ray, object, i, l, st, unblocked, light_dir) ==
    light_color(object, l, st, unblocked,
        FMul(FDiv(FMul(unblocked, l.intensity), magnitude(light_dir)),
             magnitude(light_dir)),
        FClamp(dot(i.surface_normal, VScale(normalized(light_dir), I(-1))),
               Zero, One),
        FPow(FClamp(dot(VScale(reflect(normalized(light_dir), i.surface_normal),
                               I(-1)),
                        ray.dir),
                    Zero, One),
             object.material.shininess))

\* unblocked = 1.0 - shaded as f64 / total as f64
unblocked_fraction(shaded, total) ==
    FSub(One, FDiv(I(shaded), I(total)))

\* lines 182-187
light_after_shadow(ray, object, i, l, st) ==
    IF st.panic
    THEN LightOut(l, st, NaN, "closest_intersection", FALSE, BLACK)
    ELSE IF st.shaded = st.total
    THEN LightOut(l, st, NaN, NoPanic, TRUE, BLACK)
    ELSE light_terms(ray, object, i, l, st,
                     unblocked_fraction(st.shaded, st.total),
                     VSub(i.point, l.point))

light_contribution(objects, ray, object, i, l) ==
    light_after_shadow(ray, object, i, l, shadow_test(objects, i, l))

reflected_ray(ray, i) ==
    Ray(slightly_off_surface(i), normalized(reflect(ray.dir, i.surface_normal)))

(***************************************************************************)
(* Scene::render_ray as a function                                         *)
(***************************************************************************)
\* a budget that is passed on as it was received
next_limit_same(recursion_limit) ==
    recursion_limit

\* recursion_limit -= 1
next_limit(recursion_limit) ==
    recursion_limit - 1

\* color += c, unless the light was skipped by `continue`
add_light(color, lc) ==
    IF lc.skipped THEN color ELSE ColorAdd(color, lc.c)

RECURSIVE shade_lights(_, _, _, _, _, _)

shade_light(sc, ray, object, i, k, color, lc) ==
    IF lc.panic # NoPanic THEN [panic |-> lc.panic, color |-> color]
    ELSE shade_lights(sc, ray, object, i, k + 1, add_light(color, lc))

\* the loop over the lights from index k on: the first panic or the colour
shade_lights(sc, ray, object, i, k, color) ==
    IF k > Len(sc.lights) THEN [panic |-> NoPanic, color |-> color]
    ELSE shade_light(sc, ray, object, i, k, color,
                     light_contribution(sc.objects, ray, object, i, sc.lights[k]))

\* color += reflectivity * reflected_color, unless reflected_color == BLACK
add_reflection(color, reflectivity, reflected_color) ==
    IF ~ColorEq(reflected_color, BLACK)
    THEN ColorAdd(color, ColorScale(reflected_color, reflectivity))
    ELSE color

RECURSIVE render_ray(_, _, _)

ray_reflected(lit, reflectivity, r) ==
    IF r.panic # NoPanic THEN r
    ELSE [panic |-> NoPanic,
          color |-> add_reflection(lit.color, reflectivity, r.color)]

\* lines 213-227
ray_reflect(sc, ray, recursion_limit, object, i, lit) ==
    IF lit.panic # NoPanic THEN lit
    ELSE IF FGt(object.material.reflectivity, Zero)
    THEN ray_reflected(lit, object.material.reflectivity,
                       render_ray(sc, reflected_ray(ray, i), recursion_limit))
    ELSE lit

\* lines 155-211
ray_hit(sc, ray, recursion_limit, closest) ==
    IF closest.panic THEN [panic |-> "closest_intersection", color |-> BLACK]
    ELSE IF ~closest.found THEN [panic |-> NoPanic, color |-> BLACK]
    ELSE ray_reflect(sc, ray, recursion_limit,
                     sc.objects[closest.best.index], closest.best.i,
                     shade_lights(sc, ray, sc.objects[closest.best.index],
                                  closest.best.i, 1,
                                  ColorAdd(BLACK, Color(Zero, Zero, Zero))))

render_ray(sc, ray, recursion_limit) ==
    IF recursion_limit = 0 THEN [panic |-> NoPanic, color |-> BLACK]
    ELSE ray_hit(sc, ray, next_limit(recursion_limit),
                 closest_intersection(sc.objects, ray))

(***************************************************************************)
(* aa.rs: AntiAliasing::create                                             *)
(***************************************************************************)
\* the largest i8, the type `n` is converted to by try_into().unwrap()
I8_MAX ==
    127

\* the largest u8, the type of the parameter
U8_MAX ==
    255

\* lines 5-7: the panic that ends create before the loop, or NoPanic
aa_precondition(n) ==
    IF n = 0 THEN "assert_ne"
    ELSE IF n > I8_MAX THEN "try_into"
    ELSE NoPanic

aa_delta(n) ==
    FDiv(One, I(n))

\* a start offset that forgets the `- delta`
aa_start_offset_half(n, delta) ==
    IF n = 1 THEN Zero ELSE F(1, 2)

\* lines 9-13
aa_start_offset(n, delta) ==
    IF n = 1 THEN Zero ELSE FMul(F(1, 2), FSub(One, delta))

\* line 18
aa_offset(x, y, delta, start_offset) ==
    <<FSub(FMul(I(x), delta), start_offset), FSub(FMul(I(y), delta), start_offset)>>

\* lines 16-19: the offsets the inner loop pushes for one x
aa_row(n, x, delta, start_offset) ==
    [k \in 1..n |-> aa_offset(x, k - 1, delta, start_offset)]

FAbs(a) ==
    [n |-> Abs(a.n), d |-> a.d]

\* lines 23-25: a value below 1e-9 in magnitude becomes 0.0
aa_snap(v) ==
    IF FLt(FAbs(v), F(1, 1000000000)) THEN Zero ELSE v

\* lines 22-26
aa_snap_all(offsets) ==
    [k \in 1..Len(offsets) |-> <<aa_snap(offsets[k][1]), aa_snap(offsets[k][2])>>]

RECURSIVE aa_rows(_, _, _, _)
aa_rows(n, x, delta, start_offset) ==
    IF x >= n THEN <<>>
    ELSE aa_row(n, x, delta, start_offset) \o aa_rows(n, x + 1, delta, start_offset)

aa_grid(n, delta) ==
    aa_snap_all(aa_rows(n, 0, delta, aa_start_offset(n, delta)))

\* the whole of create, for render
AntiAliasing_create(n) ==
    IF aa_precondition(n) # NoPanic THEN [panic |-> aa_precondition(n), offsets |-> <<>>]
    ELSE [panic |-> NoPanic, offsets |-> aa_grid(n, aa_delta(n))]

(***************************************************************************)
(* main.rs: Scene::render, the work done for one pixel                     *)
(***************************************************************************)
\* line 246: the grid size render passes to AntiAliasing::create
AA_GRID ==
    3

\* f64::to_radians: self * (PI / 180.0)
to_radians(degrees) ==
    FMul(degrees, FDiv(PI, I(180)))

\* line 234
camera_right(sc) ==
    cross(sc.camera.ray.dir, sc.camera.up)

\* line 237
camera_w_fov_radians(sc) ==
    to_radians(sc.camera.w_fov_degrees)

\* line 238
caemra_h_fov_radians(sc) ==
    FDiv(FMul(camera_w_fov_radians(sc), I(sc.imgy)), I(sc.imgx))

\* line 243
center_x(sc) ==
    FDiv(I(sc.imgx), I(2))

\* line 244
center_y(sc) ==
    FDiv(I(sc.imgy), I(2))

\* lines 258, 260
radians_x(sc, x, xx) ==
    FMul(FDiv(FSub(FAdd(xx, I(x)), center_x(sc)), I(sc.imgx)),
         camera_w_fov_radians(sc))

\* lines 259, 261
radians_y(sc, y, yy) ==
    FMul(FDiv(FSub(center_y(sc), FAdd(yy, I(y))), I(sc.imgy)),
         caemra_h_fov_radians(sc))

\* lines 262-265
pixel_dir(sc, rx, ry) ==
    normalized(VAdd(VAdd(sc.camera.ray.dir, VScale(camera_right(sc), rx)),
                    VScale(sc.camera.up, ry)))

\* line 266
pixel_ray(sc, x, y, offset) ==
    Ray(sc.camera.ray.o,
        pixel_dir(sc, radians_x(sc, x, offset[1]), radians_y(sc, y, offset[2])))

\* the accumulator of the loop over the offsets: colour, count, and the
\* number of render_ray calls made
Samples(panic, color, count, calls) ==
    [panic |-> panic, color |-> color, count |-> count, calls |-> calls]

RECURSIVE pixel_samples(_, _, _, _, _, _)
\* lines 268-269, for a sample whose render_ray has answered r
pixel_sample_add(sc, x, y, offsets, k, acc, r) ==
    IF r.panic # NoPanic
    THEN Samples(r.panic, acc.color, acc.count, acc.calls + 1)
    ELSE pixel_samples(sc, x, y, offsets, k + 1,
                       Samples(NoPanic, ColorAdd(acc.color, r.color),
                               acc.count + 1, acc.calls + 1))

\* lines 256-270: the loop over aa.offsets(), from offset k on
pixel_samples(sc, x, y, offsets, k, acc) ==
    IF k > Len(offsets) THEN acc
    ELSE pixel_sample_add(sc, x, y, offsets, k, acc,
                          render_ray(sc, pixel_ray(sc, x, y, offsets[k]), 1))

\* lines 272-274: the average, as the bytes of the pixel
pixel_rgb(acc) ==
    to_rgb(ColorScale(acc.color, FDiv(One, I(acc.count))))

\* what a pixel task has to write, or the panic that ended it
TaskOut(idx, acc) ==
    [idx |-> idx, panic |-> acc.panic, calls |-> acc.calls,
     rgb |-> IF acc.panic = NoPanic THEN pixel_rgb(acc) ELSE <<0, 0, 0>>]

\* enumerate_pixels_mut is row-major: pixel idx (from 1) is (x, y)
pixel_x(sc, idx) ==
    (idx - 1) % sc.imgx

pixel_y(sc, idx) ==
    (idx - 1) \div sc.imgx

\* lines 253-273: the closure of for_each up to the store into the pixel
pixel_task(sc, offsets, idx) ==
    TaskOut(idx, pixel_samples(sc, pixel_x(sc, idx), pixel_y(sc, idx), offsets, 1,
                               Samples(NoPanic, BLACK, 0, 0)))

\* a store that runs over the pixels that follow
pixel_store_from(buf, idx, rgb) ==
    [k \in 1..Len(buf) |-> IF k >= idx THEN rgb ELSE buf[k]]

\* line 274: **pixel = Rgb(..), through the task's own &mut
pixel_store(buf, idx, rgb) ==
    [buf EXCEPT ![idx] = rgb]

\* line 241: ImageBuffer::new, every pixel zero
ImageBuffer_new(imgx, imgy) ==
    [k \in 1..(imgx * imgy) |-> <<0, 0, 0>>]

RECURSIVE render_from(_, _, _, _)
\* line 274 of the sequential loop, for a task that has answered t
render_store(sc, offsets, buf, t) ==
    IF t.panic # NoPanic THEN [panic |-> t.panic, imgbuf |-> buf]
    ELSE render_from(sc, offsets, pixel_store(buf, t.idx, t.rgb), t.idx + 1)

\* lines 249-275: .iter_mut().for_each, one pixel after the other
render_from(sc, offsets, buf, idx) ==
    IF idx > Len(buf) THEN [panic |-> NoPanic, imgbuf |-> buf]
    ELSE render_store(sc, offsets, buf, pixel_task(sc, offsets, idx))

\* lines 241-275 with the AntiAliasing that create has returned
render_with(sc, created) ==
    IF created.panic # NoPanic THEN [panic |-> created.panic, imgbuf |-> <<>>]
    ELSE render_from(sc, created.offsets, ImageBuffer_new(sc.imgx, sc.imgy), 1)

\* lines 233-275: the image render hands to save
render_image(sc) ==
    render_with(sc, AntiAliasing_create(AA_GRID))

(***************************************************************************)
(* State                                                                   *)
(***************************************************************************)
VARIABLES
    scene,      \* the Scene: camera, imgx, imgy, objects, lights
    budget,     \* the recursion_limit the outermost render_ray was called with
    stack,      \* the activation records of render_ray, outermost first
    status,     \* "running", "returned" or "panicked"
    result,     \* the colour the outermost render_ray returned
    query,      \* the input of a geometry query
    answer,     \* its result
    aa_n,       \* the argument of AntiAliasing::create
    aa,         \* the activation of create: pc, loop index x, offsets
    imgbuf,     \* the pixel buffer of render
    workers,    \* the pixel tasks in flight
    order,      \* the pixels in the order their tasks finished
    ray_calls   \* the number of top-level render_ray calls render has made

vars ==
    <<scene, budget, stack, status, result, query, answer, aa_n, aa,
      imgbuf, workers, order, ray_calls>>

rayVars ==
    <<scene, budget, stack, status, result>>

geomVars ==
    <<query, answer>>

aaVars ==
    <<aa_n, aa>>

renderVars ==
    <<imgbuf, workers, order, ray_calls>>

(***************************************************************************)
(* Bounds and the scenes drawn from them                                   *)
(***************************************************************************)
MaxBudget ==
    3

MaxObjects ==
    2

MaxLights ==
    1

\* a guard on the depth of the call stack, never reached by render_ray
MaxDepth ==
    MaxBudget + 2

SeqsUpTo(S, n) ==
    UNION {[1..k -> S] : k \in 0..n}

MirrorMaterial ==
    Material(ColorScale(WHITE, F(1, 10)), ColorScale(WHITE, F(1, 10)), 2, F(7, 10))

MatteMaterial ==
    Material(BLUE, WHITE, 2, Zero)

\* two mirror planes facing each other, a ball between the eye and the
\* lower one, and a wall behind the upper one
ObjectCatalogue ==
    { Object(MirrorMaterial, Plane(V(0, 0, -2), V(0, 0, 1))),
      Object(MirrorMaterial, Plane(V(0, 0, 2), V(0, 0, -1))),
      Object(MatteMaterial, Sphere(<<Zero, Zero, I(-1)>>, F(1, 2))),
      Object(MatteMaterial, Plane(V(0, 0, 3), V(0, 0, -1))) }

\* a point light in the open, a point light lying on the upper mirror, and
\* an area light
LightCatalogue ==
    { Light(V(0, 0, 1), WHITE, Zero, F(3, 5)),
      Light(V(0, 0, 2), WHITE, Zero, F(7, 10)),
      Light(V(0, 0, 1), WHITE, F(1, 20), F(3, 5)) }

EyeRays ==
    { Ray(V(0, 0, 0), V(0, 0, 1)), Ray(V(0, 0, 0), V(0, 0, -1)) }

NoCamera ==
    [ray |-> Ray(V(0, 0, 0), V(0, 0, 1)), up |-> V(0, 0, 1), w_fov_degrees |-> Zero]

Scene(camera, imgx, imgy, objects, lights) ==
    [camera |-> camera, imgx |-> imgx, imgy |-> imgy, objects |-> objects,
     lights |-> lights]

RayScenes ==
    { Scene(NoCamera, 0, 0, objects, lights) :
        objects \in SeqsUpTo(ObjectCatalogue, MaxObjects),
        lights \in SeqsUpTo(LightCatalogue, MaxLights) }

(***************************************************************************)
(* Scene::render_ray, one activation record per call                       *)
(***************************************************************************)
NoHit ==
    [index |-> 0, i |-> None]

Frame(ray, recursion_limit) ==
    [ray |-> ray, arg |-> recursion_limit, recursion_limit |-> recursion_limit,
     color |-> BLACK, pc |-> "entry", hit |-> NoHit, li |-> 1, lit |-> <<>>]

Idle ==
    "idle"

InitRay ==
    /\ scene \in RayScenes
    /\ budget \in 0..MaxBudget
    /\ \E ray \in EyeRays : stack = <<Frame(ray, budget)>>
    /\ status = "running"
    /\ result = BLACK
    /\ query = Idle /\ answer = Idle
    /\ aa_n = 0 /\ aa = Idle
    /\ imgbuf = <<>> /\ workers = <<>> /\ order = <<>> /\ ray_calls = 0

Top ==
    stack[Len(stack)]

SetTop(f) ==
    [stack EXCEPT ![Len(stack)] = f]

Running ==
    status = "running" /\ stack # <<>>

\* lines 140-146: the budget check and its decrement
Enter ==
    /\ Running
    /\ Top.pc = "entry"
    /\ stack' = SetTop(IF Top.recursion_limit = 0
                       THEN [Top EXCEPT !.pc = "return"]
                       ELSE [Top EXCEPT !.recursion_limit = next_limit(@),
                                        !.pc = "intersect"])
    /\ UNCHANGED <<scene, budget, status, result, geomVars, aaVars, renderVars>>

Intersected(closest) ==
    IF closest.panic
    THEN /\ status' = "panicked"
         /\ stack' = SetTop([Top EXCEPT !.pc = "closest_intersection"])
    ELSE /\ status' = status
         /\ stack' = SetTop(
                IF closest.found
                THEN [Top EXCEPT !.hit = closest.best, !.pc = "lights",
                                 !.color = ColorAdd(@, Color(Zero, Zero, Zero))]
                ELSE [Top EXCEPT !.pc = "return"])

\* line 155: the nearest hit of the ray, and the ambient term
Intersect ==
    /\ Running
    /\ Top.pc = "intersect"
    /\ Intersected(closest_intersection(scene.objects, Top.ray))
    /\ UNCHANGED <<scene, budget, result, geomVars, aaVars, renderVars>>

Shaded(lc) ==
    IF lc.panic # NoPanic
    THEN /\ status' = "panicked"
         /\ stack' = SetTop([Top EXCEPT !.pc = lc.panic, !.lit = Append(@, lc)])
    ELSE /\ status' = status
         /\ stack' = SetTop([Top EXCEPT !.color = add_light(@, lc),
                                        !.li = @ + 1,
                                        !.lit = Append(@, lc)])

\* lines 160-211: one iteration of the loop over the lights
ShadeLight ==
    /\ Running
    /\ Top.pc = "lights"
    /\ Top.li <= Len(scene.lights)
    /\ Shaded(light_contribution(scene.objects, Top.ray,
                                 scene.objects[Top.hit.index], Top.hit.i,
                                 scene.lights[Top.li]))
    /\ UNCHANGED <<scene, budget, result, geomVars, aaVars, renderVars>>

\* lines 214-217: the recursive call for a reflective material
ReflectCall ==
    /\ Running
    /\ Top.pc = "lights"
    /\ Top.li > Len(scene.lights)
    /\ FGt(scene.objects[Top.hit.index].material.reflectivity, Zero)
    /\ Len(stack) < MaxDepth
    /\ stack' = Append(SetTop([Top EXCEPT !.pc = "await"]),
                       Frame(reflected_ray(Top.ray, Top.hit.i), Top.recursion_limit))
    /\ UNCHANGED <<scene, budget, status, result, geomVars, aaVars, renderVars>>

\* line 214 when the material does not reflect
NoReflection ==
    /\ Running
    /\ Top.pc = "lights"
    /\ Top.li > Len(scene.lights)
    /\ ~FGt(scene.objects[Top.hit.index].material.reflectivity, Zero)
    /\ stack' = SetTop([Top EXCEPT !.pc = "return"])
    /\ UNCHANGED <<scene, budget, status, result, geomVars, aaVars, renderVars>>

\* lines 218-230: a call returns its colour, to its caller when it has one
Return ==
    /\ Running
    /\ Top.pc = "return"
    /\ IF Len(stack) = 1
       THEN /\ stack' = <<>>
            /\ result' = Top.color
            /\ status' = "returned"
       ELSE LET caller == stack[Len(stack) - 1]
                object == scene.objects[caller.hit.index]
            IN  /\ stack' = [SubSeq(stack, 1, Len(stack) - 1) EXCEPT
                       ![Len(stack) - 1] = [caller EXCEPT
                           !.color = add_reflection(@, object.material.reflectivity,
                                                    Top.color),
                           !.pc = "return"]]
                /\ result' = result
                /\ status' = status
    /\ UNCHANGED <<scene, budget, geomVars, aaVars, renderVars>>

NextRay ==
    \/ Enter
    \/ Intersect
    \/ ShadeLight
    \/ ReflectCall
    \/ NoReflection
    \/ Return

SpecRay ==
    InitRay /\ [][NextRay]_vars

(***************************************************************************)
(* AntiAliasing::create, one step per iteration of the outer loop          *)
(***************************************************************************)
MaxSmallGrid ==
    12

MaxGrid ==
    129

\* small grids, and the grids around the largest i8
GridSizes ==
    (0..MaxSmallGrid) \cup ((I8_MAX - 1)..MaxGrid)

InitAA ==
    /\ aa_n \in {n \in GridSizes : n <= U8_MAX}
    /\ aa = [pc |-> "create", x |-> 0, offsets |-> <<>>]
    /\ scene = Idle /\ budget = 0 /\ stack = <<>> /\ status = Idle
    /\ result = BLACK
    /\ query = Idle /\ answer = Idle
    /\ imgbuf = <<>> /\ workers = <<>> /\ order = <<>> /\ ray_calls = 0

\* lines 5-13
CreateEnter ==
    /\ aa.pc = "create"
    /\ aa' = IF aa_precondition(aa_n) # NoPanic
             THEN [aa EXCEPT !.pc = aa_precondition(aa_n)]
             ELSE [aa EXCEPT !.pc = "loop"]
    /\ UNCHANGED <<aa_n, rayVars, geomVars, renderVars>>

\* lines 14-20: one iteration of `for x in 0..n`
CreateRow ==
    /\ aa.pc = "loop"
    /\ aa.x < aa_n
    /\ aa' = [aa EXCEPT
                 !.offsets = @ \o aa_row(aa_n, aa.x, aa_delta(aa_n),
                                         aa_start_offset(aa_n, aa_delta(aa_n))),
                 !.x = @ + 1]
    /\ UNCHANGED <<aa_n, rayVars, geomVars, renderVars>>

\* lines 22-28
CreateReturn ==
    /\ aa.pc = "loop"
    /\ aa.x >= aa_n
    /\ aa' = [aa EXCEPT !.offsets = aa_snap_all(@), !.pc = "returned"]
    /\ UNCHANGED <<aa_n, rayVars, geomVars, renderVars>>

NextAA ==
    \/ CreateEnter
    \/ CreateRow
    \/ CreateReturn

SpecAA ==
    InitAA /\ [][NextAA]_vars

(***************************************************************************)
(* Scene::render: the tasks of for_each under any schedule.  The code runs *)
(* them one at a time in row-major order, which is the schedule that       *)
(* starts and finishes pixel 1, then pixel 2, and so on.                   *)
(***************************************************************************)
MaxPixels ==
    3

MaxWorkers ==
    2

\* a camera whose up is parallel to its direction: camera_right is zero and
\* the rows of the image look up or down the z axis
AxisCamera ==
    [ray |-> Ray(V(0, 0, 0), V(0, 0, 1)), up |-> V(0, 0, 1),
     w_fov_degrees |-> I(180)]

\* a camera with no field of view: every pixel looks along +z
NarrowCamera ==
    [ray |-> Ray(V(0, 0, 0), V(0, 0, 1)), up |-> V(0, 1, 0),
     w_fov_degrees |-> Zero]

Cameras ==
    {AxisCamera, NarrowCamera}

\* a mirror above the eye and a ball below it; a wall above the eye
RenderObjects ==
    << <<Object(MirrorMaterial, Plane(V(0, 0, 2), V(0, 0, -1))),
         Object(MatteMaterial, Sphere(<<Zero, Zero, I(-1)>>, F(1, 2)))>>,
       <<Object(MatteMaterial, Plane(V(0, 0, 3), V(0, 0, -1)))>> >>

\* a point light, a light with a negative radius, and a point light lying
\* on the mirror
RenderLights ==
    << <<Light(V(0, 0, 1), WHITE, Zero, F(3, 5))>>,
       <<Light(V(0, 0, 1), WHITE, I(-1), F(3, 5))>>,
       <<Light(V(0, 0, 2), WHITE, Zero, F(7, 10))>> >>

ImageSizes ==
    {wh \in (0..MaxPixels) \X (0..MaxPixels) : wh[1] * wh[2] <= MaxPixels}

\* the mirror and the ball under each of the lights, seen up and down the
\* axis, and the wall seen through the narrow camera
RenderConfigs ==
    { [camera |-> AxisCamera, objects |-> 1, lights |-> 1],
      [camera |-> AxisCamera, objects |-> 1, lights |-> 2],
      [camera |-> AxisCamera, objects |-> 1, lights |-> 3],
      [camera |-> NarrowCamera, objects |-> 2, lights |-> 1] }

RenderScenes ==
    { Scene(c.camera, wh[1], wh[2], RenderObjects[c.objects], RenderLights[c.lights]) :
        c \in RenderConfigs, wh \in ImageSizes }

InitRender ==
    /\ scene \in RenderScenes
    /\ status = "render"
    /\ aa = Idle /\ aa_n = AA_GRID
    /\ imgbuf = <<>> /\ workers = {} /\ order = <<>> /\ ray_calls = 0
    /\ budget = 1 /\ stack = <<>> /\ result = BLACK
    /\ query = Idle /\ answer = Idle

RenderEntered(created) ==
    /\ aa' = created
    /\ status' = IF created.panic # NoPanic THEN "panicked" ELSE "pixels"

\* lines 234-249: the buffer, the AntiAliasing and the list of pixels
RenderEnter ==
    /\ status = "render"
    /\ RenderEntered(AntiAliasing_create(aa_n))
    /\ imgbuf' = ImageBuffer_new(scene.imgx, scene.imgy)
    /\ UNCHANGED <<scene, budget, stack, result, geomVars, aa_n, workers, order,
                   ray_calls>>

Finished ==
    {order[k] : k \in 1..Len(order)}

\* a worker takes a pixel that no worker has taken
TaskStart ==
    /\ status = "pixels"
    /\ Cardinality(workers) < MaxWorkers
    /\ \E idx \in (1..Len(imgbuf)) \ (workers \cup Finished) :
           workers' = workers \cup {idx}
    /\ UNCHANGED <<scene, budget, stack, status, result, geomVars, aaVars, imgbuf,
                   order, ray_calls>>

\* line 274 for a task that has answered t; a failed assertion of
\* render_ray ends render
TaskRan(t) ==
    /\ ray_calls' = ray_calls + t.calls
    /\ IF t.panic # NoPanic
       THEN /\ status' = "panicked"
            /\ UNCHANGED <<imgbuf, workers, order>>
       ELSE /\ status' = status
            /\ imgbuf' = pixel_store(imgbuf, t.idx, t.rgb)
            /\ workers' = workers \ {t.idx}
            /\ order' = Append(order, t.idx)

\* lines 253-274: the worker shades its pixel and stores it
TaskRun ==
    /\ status = "pixels"
    /\ \E idx \in workers : TaskRan(pixel_task(scene, aa.offsets, idx))
    /\ UNCHANGED <<scene, budget, stack, result, geomVars, aaVars>>

\* line 277: imgbuf.save(path).unwrap().  The file system may refuse any
\* image; what the encoder does with an image of no pixels is not in the
\* repository, and it is taken to refuse it
Save ==
    /\ status = "pixels"
    /\ workers = {}
    /\ Len(order) = Len(imgbuf)
    /\ status' \in (IF Len(imgbuf) = 0 THEN {"panicked"} ELSE {"saved", "panicked"})
    /\ UNCHANGED <<scene, budget, stack, result, geomVars, aaVars, renderVars>>

NextRender ==
    \/ RenderEnter
    \/ TaskStart
    \/ TaskRun
    \/ Save

SpecRender ==
    InitRender /\ [][NextRender]_vars

(***************************************************************************)
(* The geometry functions applied to bounded inputs                        *)
(***************************************************************************)
MaxCoord ==
    2

MaxRadius ==
    2

MaxShapes ==
    3

Coords ==
    (-MaxCoord)..MaxCoord

Points ==
    {V(x, y, z) : x \in Coords, y \in Coords, z \in Coords}

\* unit directions along the axes and in the planes of the axes, and
\* directions that are not unit vectors
Directions ==
    { V(1, 0, 0), V(-1, 0, 0), V(0, 1, 0), V(0, -1, 0), V(0, 0, 1), V(0, 0, -1),
      <<F(3, 5), F(4, 5), Zero>>, <<F(-4, 5), Zero, F(3, 5)>>,
      <<Zero, F(-3, 5), F(-4, 5)>>,
      V(1, 1, 0), V(0, -1, 2), V(0, 0, 2) }

Normals ==
    { V(0, 0, 1), V(0, 0, -1), V(1, 0, 0), <<F(3, 5), F(4, 5), Zero>>, V(0, 1, 1) }

Radii ==
    {I(k) : k \in 1..MaxRadius} \cup {F(1, 2)}

\* f64::sqrt of a is computed exactly by FSqrt
SqrtExact(a) ==
    IsNaN(a) \/ a.n < 0 \/ a.d = 0 \/ (IsSquare(a.n) /\ IsSquare(a.d))

HitExact(C, r, t) ==
    ~t.some \/ SqrtExact(dot(VSub(VAdd(r.o, VScale(r.dir, t.t)), C),
                              VSub(VAdd(r.o, VScale(r.dir, t.t)), C)))

DiscriminantExact(C, R, r, discriminant) ==
    /\ SqrtExact(discriminant)
    /\ HitExact(C, r, sphere_t(sphere_b(r.dir, VSub(r.o, C)), discriminant))

\* the square roots find_intersection takes for this sphere and ray are exact
SphereExact(C, R, r) ==
    DiscriminantExact(C, R, r,
        sphere_discriminant(sphere_b(r.dir, VSub(r.o, C)), sphere_c(VSub(r.o, C), R)))

SphereQueries ==
    { q \in [kind : {"sphere"}, center : {V(0, 0, 0), V(1, 0, -1)}, radius : Radii,
             ray : {Ray(o, dir) : o \in Points, dir \in Directions}] :
        SphereExact(q.center, q.radius, q.ray) }

PlaneQueries ==
    [kind : {"plane"}, point : {V(0, 0, 1), V(1, -1, 0)}, normal : Normals,
     ray : {Ray(o, dir) : o \in Points, dir \in Directions}]

\* shapes along the z axis; the first three are met at the same distance by
\* a ray that climbs the axis from below
AxisShapes ==
    { Plane(V(0, 0, 1), V(0, 0, -1)), Plane(V(0, 0, 1), V(0, 0, 1)),
      Sphere(V(0, 0, 2), One), Sphere(V(0, 0, -2), F(1, 2)),
      Plane(V(0, 0, 2), V(0, 0, -1)) }

AxisRays ==
    { Ray(V(0, 0, z), dir) : z \in {-1, 0}, dir \in {V(0, 0, 1), V(0, 0, -1)} }

NoMaterial ==
    Material(BLACK, BLACK, 0, Zero)

ClosestQueries ==
    { [kind |-> "closest",
       objects |-> [k \in DOMAIN shapes |-> Object(NoMaterial, shapes[k])],
       ray |-> ray] :
        shapes \in SeqsUpTo(AxisShapes, MaxShapes), ray \in AxisRays }

Pending ==
    [done |-> FALSE]

Answer(value) ==
    [done |-> TRUE, value |-> value]

InitGeom ==
    /\ query \in SphereQueries \cup PlaneQueries \cup ClosestQueries
    /\ answer = Pending
    /\ scene = Idle /\ budget = 0 /\ stack = <<>> /\ status = Idle
    /\ result = BLACK
    /\ aa_n = 0 /\ aa = Idle
    /\ imgbuf = <<>> /\ workers = <<>> /\ order = <<>> /\ ray_calls = 0

AskSphere ==
    /\ query.kind = "sphere"
    /\ ~answer.done
    /\ answer' = Answer(sphere_find_intersection(query.center, query.radius, query.ray))
    /\ UNCHANGED <<query, rayVars, aaVars, renderVars>>

AskPlane ==
    /\ query.kind = "plane"
    /\ ~answer.done
    /\ answer' = Answer(find_intersection(Plane(query.point, query.normal), query.ray))
    /\ UNCHANGED <<query, rayVars, aaVars, renderVars>>

AskClosest ==
    /\ query.kind = "closest"
    /\ ~answer.done
    /\ answer' = Answer(closest_intersection(query.objects, query.ray))
    /\ UNCHANGED <<query, rayVars, aaVars, renderVars>>

NextGeom ==
    \/ AskSphere
    \/ AskPlane
    \/ AskClosest

SpecGeom ==
    InitGeom /\ [][NextGeom]_vars

(***************************************************************************)
(* The shadow test of render_ray applied to a lit floor                    *)
(***************************************************************************)
\* the shaded surface: the plane z = 0, seen from above
Floor ==
    Object(MatteMaterial, Plane(V(0, 0, 0), V(0, 0, 1)))

FloorEyeRay ==
    Ray(V(0, 0, 1), V(0, 0, -1))

\* planes above the floor: between the floor and the lights, at the
\* distance of a light from the shaded point as the shadow ray measures it
\* (the ray starts 0.001 above the floor), and behind the lights
Blockers ==
    { Object(MatteMaterial, Plane(V(0, 0, 2), V(0, 0, -1))),
      Object(MatteMaterial, Plane(<<Zero, Zero, F(3001, 1000)>>, V(0, 0, -1))),
      Object(MatteMaterial, Plane(<<Zero, Zero, F(4001, 1000)>>, V(0, 0, -1))),
      Object(MatteMaterial, Plane(V(0, 0, 6), V(0, 0, -1))) }

\* a point light above the shaded point, a point light to its side, and an
\* area light to its side
ShadowLights ==
    { Light(V(0, 0, 3), WHITE, Zero, F(3, 5)),
      Light(V(3, 0, 4), WHITE, Zero, F(3, 5)),
      Light(V(3, 0, 4), WHITE, F(1, 2), F(3, 5)) }

\* line 155: the hit render_ray shades
ShadedHit(closest) ==
    closest.best.i

ShadowQueries ==
    { [kind |-> "shadow", objects |-> <<Floor>> \o blockers,
       i |-> ShadedHit(closest_intersection(<<Floor>> \o blockers, FloorEyeRay)),
       light |-> l] :
        blockers \in SeqsUpTo(Blockers, MaxShapes), l \in ShadowLights }

InitShadow ==
    /\ query \in ShadowQueries
    /\ answer = Pending
    /\ scene = Idle /\ budget = 0 /\ stack = <<>> /\ status = Idle
    /\ result = BLACK
    /\ aa_n = 0 /\ aa = Idle
    /\ imgbuf = <<>> /\ workers = <<>> /\ order = <<>> /\ ray_calls = 0

\* lines 161-180: shaded and total for one light
AskShadow ==
    /\ query.kind = "shadow"
    /\ ~answer.done
    /\ answer' = Answer(shadow_test(query.objects, query.i, query.light))
    /\ UNCHANGED <<query, rayVars, aaVars, renderVars>>

NextShadow ==
    AskShadow

SpecShadow ==
    InitShadow /\ [][NextShadow]_vars

(***************************************************************************)
(* Properties of the geometry functions                                    *)
(***************************************************************************)
HitIndexes(objects, ray) ==
    {k \in 1..Len(objects) : find_intersection(objects[k].shape, ray).hit}

HitDistance(objects, ray, k) ==
    find_intersection(objects[k].shape, ray).distance

ClosestAnswered ==
    query.kind = "closest" /\ answer.done

\* C2: closest_intersection returns none exactly when no object is hit;
\* otherwise it returns an object that is hit, with its intersection, whose
\* distance is at most the distance of every hit, and which comes first in
\* the object list among the objects hit at that distance.
C2_ClosestIsFirstMinimum ==
    ClosestAnswered =>
        /\ ~answer.value.panic
        /\ ~answer.value.found <=> HitIndexes(query.objects, query.ray) = {}
        /\ answer.value.found =>
              /\ answer.value.best.index \in HitIndexes(query.objects, query.ray)
              /\ answer.value.best.i =
                    find_intersection(query.objects[answer.value.best.index].shape,
                                      query.ray)
              /\ \A k \in HitIndexes(query.objects, query.ray) :
                    /\ FLe(answer.value.best.i.distance,
                           HitDistance(query.objects, query.ray, k))
                    /\ FEq(answer.value.best.i.distance,
                           HitDistance(query.objects, query.ray, k))
                          => answer.value.best.index <= k

\* a query answered with the first of two objects hit at the minimal
\* distance, while a third object is hit farther away
C2_Witness ==
    /\ ClosestAnswered
    /\ answer.value.found
    /\ \E k \in HitIndexes(query.objects, query.ray) :
          /\ k > answer.value.best.index
          /\ FEq(HitDistance(query.objects, query.ray, k),
                 answer.value.best.i.distance)
    /\ \E k \in HitIndexes(query.objects, query.ray) :
          FGt(HitDistance(query.objects, query.ray, k), answer.value.best.i.distance)

SphereAnswered ==
    query.kind = "sphere" /\ answer.done

OutsidePointingAway ==
    /\ FGt(sphere_c(VSub(query.ray.o, query.center), query.radius), Zero)
    /\ FGt(dot(query.ray.dir, VSub(query.ray.o, query.center)), Zero)

\* C7: a ray whose origin is strictly outside the sphere and whose
\* direction points away from it gets no hit from sphere::find_intersection.
C7_AwayRayMisses ==
    (SphereAnswered /\ OutsidePointingAway) => answer.value = None

\* such a ray on a line that crosses the sphere: both roots exist, both
\* are negative
C7_Witness ==
    /\ SphereAnswered
    /\ OutsidePointingAway
    /\ FGt(sphere_discriminant(
               sphere_b(query.ray.dir, VSub(query.ray.o, query.center)),
               sphere_c(VSub(query.ray.o, query.center), query.radius)), Zero)
    /\ answer.value = None

PlaneAnswered ==
    query.kind = "plane" /\ answer.done

PlaneT ==
    FDiv(dot(VSub(query.point, query.ray.o), query.normal),
         dot(query.ray.dir, query.normal))

\* C8: the plane intersection returns no hit when L.N == 0 and when
\* t = (P0-L0).N / (L.N) <= 0; otherwise it returns a hit at distance t > 0,
\* at the point L0 + L*t, which lies on the plane, with the plane's own
\* normal N.
C8_PlaneIntersection ==
    PlaneAnswered =>
        IF FEq(dot(query.ray.dir, query.normal), Zero) THEN answer.value = None
        ELSE IF FLe(PlaneT, Zero) THEN answer.value = None
        ELSE /\ answer.value.hit
             /\ answer.value.distance = PlaneT
             /\ FGt(answer.value.distance, Zero)
             /\ answer.value.point = VAdd(query.ray.o, VScale(query.ray.dir, PlaneT))
             /\ FEq(dot(VSub(answer.value.point, query.point), query.normal), Zero)
             /\ answer.value.surface_normal = query.normal

\* a hit by a ray that travels along the normal: the normal returned
\* faces away from the ray's origin
C8_Witness ==
    /\ PlaneAnswered
    /\ answer.value.hit
    /\ FGt(dot(query.ray.dir, query.normal), Zero)
    /\ answer.value.surface_normal = query.normal
    /\ answer.value.point # query.point

(***************************************************************************)
(* Properties of render_ray                                                *)
(***************************************************************************)
\* the call at depth j was made with the budget of the outermost call less
\* the number of calls above it, and only the innermost call can have
\* budget 0
BudgetDecreases ==
    \A j \in 1..Len(stack) :
        /\ stack[j].arg = budget - (j - 1)
        /\ stack[j].arg = 0 => j = Len(stack)

\* the steps one call takes at most: the budget check, the nearest-hit
\* query, one step per light, the reflection and the return
StepsPerCall ==
    Len(scene.lights) + 4

\* the steps the call of frame f can still take itself
OwnSteps(f) ==
    CASE f.pc = "entry" -> StepsPerCall
      [] f.pc = "intersect" -> StepsPerCall - 1
      [] f.pc = "lights" -> Len(scene.lights) + 1 - f.li + 2
      [] f.pc = "await" -> 1
      [] f.pc = "return" -> 1
      [] OTHER -> 0

\* the steps of the calls that frame f can still cause
CalleeSteps(f) ==
    CASE f.pc = "entry" -> f.arg * StepsPerCall
      [] f.pc \in {"intersect", "lights"} -> (f.recursion_limit + 1) * StepsPerCall
      [] OTHER -> 0

RECURSIVE StepsFrom(_)
StepsFrom(j) ==
    IF j > Len(stack) THEN 0
    ELSE OwnSteps(stack[j]) + CalleeSteps(stack[j]) + StepsFrom(j + 1)

\* a bound on the steps left before the outermost call has returned
StepsLeft ==
    IF status = "running" THEN StepsFrom(1) ELSE 0

\* C1: render_ray called with recursion budget k terminates (every step
\* lowers a bound on the steps that are left); it never nests more than k
\* reflection calls; every recursive call is made with the caller's budget
\* less one, and a call with budget 0 makes no recursive call.
C1_BoundedRecursion ==
    /\ [](Len(stack) <= budget + 1 /\ BudgetDecreases /\ StepsLeft >= 0)
    /\ [][StepsLeft' < StepsLeft]_vars

TwoMirrors ==
    /\ Len(scene.objects) = 2
    /\ \A k \in 1..2 :
          /\ scene.objects[k].shape.kind = "Plane"
          /\ FGt(scene.objects[k].material.reflectivity, Zero)
    /\ scene.objects[1].shape.normal = VScale(scene.objects[2].shape.normal, I(-1))

\* between two mirror planes that face each other, the call with budget 0
\* has been reached through as many nested reflections as the budget allows
C1_Witness ==
    /\ TwoMirrors
    /\ budget >= 2
    /\ Len(stack) = budget + 1
    /\ stack[Len(stack)].arg = 0
    /\ stack[Len(stack)].pc = "return"

\* the lights shaded so far by the calls on the stack
LightRecords ==
    UNION {{stack[j].lit[k] : k \in 1..Len(stack[j].lit)} : j \in 1..Len(stack)}

\* C3: for a light of radius 0 the shadow test uses exactly one sample, at
\* the light's own position, so the unblocked fraction 1 - shaded/total is
\* 0 or 1.
C3_PointLightShadowIsBinary ==
    \A lc \in LightRecords :
        FEq(lc.radius, Zero) =>
            /\ lc.total = 1
            /\ lc.positions = <<lc.point>>
            /\ unblocked_fraction(lc.shaded, lc.total) \in {Zero, One}
            /\ (lc.panic = NoPanic /\ ~lc.skipped) => lc.unblocked = One

\* a point light that was tested and found unblocked
C3_Witness ==
    \E lc \in LightRecords :
        /\ FEq(lc.radius, Zero)
        /\ lc.panic = NoPanic
        /\ ~lc.skipped
        /\ lc.shaded = 0
        /\ lc.unblocked = One

\* a point light that was tested and found blocked
PointLightBlocked ==
    \E lc \in LightRecords :
        FEq(lc.radius, Zero) /\ lc.panic = NoPanic /\ lc.skipped /\ lc.shaded = 1

\* the spheres have radius > 0, the lights intensity >= 0 and radius >= 0,
\* the colours are non-negative
DataModel ==
    /\ \A k \in 1..Len(scene.objects) :
          /\ scene.objects[k].shape.kind = "Sphere"
                => FGt(scene.objects[k].shape.radius, Zero)
          /\ \A c \in 1..3 :
                /\ FGe(scene.objects[k].material.diffuse_color[c], Zero)
                /\ FGe(scene.objects[k].material.specular_color[c], Zero)
    /\ \A k \in 1..Len(scene.lights) :
          /\ FGe(scene.lights[k].intensity, Zero)
          /\ FGe(scene.lights[k].radius, Zero)
          /\ \A c \in 1..3 : FGe(scene.lights[k].color[c], Zero)

\* C10: for a scene that satisfies the data model, no assertion of
\* render_ray fails: the call returns a colour.
C10_NoAssertionFails ==
    DataModel => status # "panicked"

\* the same for point lights alone: the shaded point may coincide with the
\* light
C10_NoAssertionFailsPointLights ==
    (DataModel /\ \A k \in 1..Len(scene.lights) : FEq(scene.lights[k].radius, Zero))
        => status # "panicked"

(***************************************************************************)
(* Properties of AntiAliasing::create                                      *)
(***************************************************************************)
CreateEnded ==
    aa.pc \notin {"create", "loop"}

CreateReturned ==
    aa.pc = "returned"

\* C5: for every grid size n in 1..255, create(n) returns normally and
\* offsets() holds exactly n*n elements, the element for (x, y) at x*n + y.
C5_CreateReturnsGrid ==
    (CreateEnded /\ aa_n >= 1 /\ aa_n <= U8_MAX) =>
        /\ aa.pc = "returned"
        /\ Len(aa.offsets) = aa_n * aa_n

\* the centred value of coordinate j of an n-grid: j/n - (1 - 1/n)/2
CentredCoordinate(n, j) ==
    FSub(FDiv(I(j), I(n)), FDiv(FSub(One, FDiv(One, I(n))), I(2)))

CentredCoordinates(n) ==
    {CentredCoordinate(n, j) : j \in 0..(n - 1)}

RECURSIVE SumOf(_, _, _, _)
\* the sum of coordinate c of offsets[lo..hi], halving the range
SumOf(offsets, c, lo, hi) ==
    IF lo > hi THEN Zero
    ELSE IF lo = hi THEN offsets[lo][c]
    ELSE FAdd(SumOf(offsets, c, lo, (lo + hi) \div 2),
              SumOf(offsets, c, (lo + hi) \div 2 + 1, hi))

MeanOf(offsets, c) ==
    FDiv(SumOf(offsets, c, 1, Len(offsets)), I(Len(offsets)))

InsidePixel(v) ==
    FLt(F(-1, 2), v) /\ FLt(v, F(1, 2))

\* C6: whenever create(n) returns, the x-coordinates and the y-coordinates
\* are each the values j/n - (1 - 1/n)/2 for j in 0..n-1, their means are
\* within 1e-5 of zero, every offset lies strictly inside (-0.5, 0.5), and
\* for n = 1 the single offset is exactly (0, 0).
C6_OffsetsCentred ==
    CreateReturned =>
        /\ \A c \in 1..2 :
            /\ {aa.offsets[k][c] : k \in 1..Len(aa.offsets)} = CentredCoordinates(aa_n)
            /\ FLt(FAbs(MeanOf(aa.offsets, c)), F(1, 100000))
        /\ \A k \in 1..Len(aa.offsets) :
               InsidePixel(aa.offsets[k][1]) /\ InsidePixel(aa.offsets[k][2])
        /\ (aa_n = 1 => aa.offsets = <<(<<Zero, Zero>>)>>)

\* create(3) has returned its nine offsets, the first at (-1/3, -1/3) and
\* the middle one at the centre of the pixel
C6_Witness ==
    /\ CreateReturned
    /\ aa_n = 3
    /\ Len(aa.offsets) = 9
    /\ aa.offsets[1] = <<F(-1, 3), F(-1, 3)>>
    /\ aa.offsets[5] = <<Zero, Zero>>

(***************************************************************************)
(* Properties of Scene::render                                             *)
(***************************************************************************)
\* C4: whatever the order and the overlap of the pixel tasks, a pixel no
\* task has stored is untouched, a pixel whose task has finished is never
\* written again, and the image that is saved is the image of the
\* sequential row-major loop.
C4_ImageIndependentOfSchedule ==
    /\ [](status \in {"pixels", "saved"} =>
            \A idx \in (1..Len(imgbuf)) \ Finished : imgbuf[idx] = <<0, 0, 0>>)
    /\ [][\A idx \in Finished : imgbuf'[idx] = imgbuf[idx]]_vars
    /\ [](status = "saved" =>
            render_image(scene) = [panic |-> NoPanic, imgbuf |-> imgbuf])

\* an image of two different pixels has been saved after the task of the
\* last pixel finished first
C4_Witness ==
    /\ status = "saved"
    /\ Len(order) >= 2
    /\ order[1] = Len(imgbuf)
    /\ imgbuf[1] # imgbuf[Len(imgbuf)]

\* the configuration preconditions the specification lists
ConfigurationViolated ==
    \/ aa_n = 0
    \/ \E k \in 1..Len(scene.lights) : FLt(scene.lights[k].radius, Zero)
    \/ scene.imgx = 0
    \/ scene.imgy = 0

\* C9: a run whose configuration violates a precondition makes no
\* render_ray call and fails: it stores no pixel and saves no image.
C9_FailsBeforeRendering ==
    ConfigurationViolated =>
        /\ ray_calls = 0
        /\ order = <<>>
        /\ status # "saved"

(***************************************************************************)
(* Properties of the shadow test                                           *)
(***************************************************************************)
ShadowAnswered ==
    query.kind = "shadow" /\ answer.done /\ ~answer.value.panic

\* the nearest hit of a shadow ray lies strictly before the sample
StrictlyBefore(closest, light_distance) ==
    closest.found /\ FLt(closest.best.i.distance, light_distance)

\* the nearest hit of a shadow ray lies before the sample or at its distance
NotBehind(closest, light_distance) ==
    closest.found /\ FLe(closest.best.i.distance, light_distance)

\* the nearest hit along the shadow ray toward a light position
ShadowHit(light_position) ==
    closest_intersection(query.objects,
        Ray(slightly_off_surface(query.i),
            normalized(VSub(light_position, query.i.point))))

SampleDistance(light_position) ==
    magnitude(VSub(light_position, query.i.point))

\* C11: the samples counted as blocked are exactly those whose shadow ray
\* has a nearest hit strictly closer than the sample; a nearest hit at the
\* distance of the sample, or farther, or no hit, leaves it unblocked.
C11_BlockedIffStrictlyCloser ==
    ShadowAnswered =>
        /\ answer.value.total = Len(answer.value.positions)
        /\ answer.value.shaded =
              Cardinality({k \in 1..Len(answer.value.positions) :
                  StrictlyBefore(ShadowHit(answer.value.positions[k]),
                                 SampleDistance(answer.value.positions[k]))})

\* what the code counts: a nearest hit at the distance of the sample blocks
C11_BlockedIffNotBehind ==
    ShadowAnswered =>
        /\ answer.value.total = Len(answer.value.positions)
        /\ answer.value.shaded =
              Cardinality({k \in 1..Len(answer.value.positions) :
                  NotBehind(ShadowHit(answer.value.positions[k]),
                            SampleDistance(answer.value.positions[k]))})

\* a shadow test whose nearest hit is at the distance of the light
C11_EqualDistance ==
    /\ ShadowAnswered
    /\ \E k \in 1..Len(answer.value.positions) :
          /\ ShadowHit(answer.value.positions[k]).found
          /\ FEq(ShadowHit(answer.value.positions[k]).best.i.distance,
                 SampleDistance(answer.value.positions[k]))

(***************************************************************************)
(* Properties of the reflection step of render_ray                         *)
(***************************************************************************)
RECURSIVE LitColour(_, _)
\* the ambient term and the contributions of the first k lights a call
\* has shaded
LitColour(lit, k) ==
    IF k = 0 THEN ColorAdd(BLACK, Color(Zero, Zero, Zero))
    ELSE add_light(LitColour(lit, k - 1), lit[k])

\* a call that was entered with a non-zero budget, hit a reflective
\* material and has its result
ReflectiveResult(f) ==
    /\ f.pc = "return"
    /\ f.arg > 0
    /\ f.hit.index > 0
    /\ FGt(scene.objects[f.hit.index].material.reflectivity, Zero)

\* the colour of a ray shaded on its own: nearest hit, ambient and lights,
\* with any further reflection black
OwnShading(ray) ==
    render_ray(scene, ray, 1)

\* the reflected ray shaded with the budget its caller passes on, where a
\* budget of zero still shades the ray itself
ReflectedShading(ray, recursion_limit) ==
    IF recursion_limit = 0 THEN OwnShading(ray)
    ELSE render_ray(scene, ray, recursion_limit)

\* the same where a budget of zero gives black, without a nearest-hit query
ReflectedCall(ray, recursion_limit) ==
    render_ray(scene, ray, recursion_limit)

\* C12: the result of a call with a non-zero budget whose nearest hit is
\* reflective is its own ambient and light terms plus reflectivity times
\* the colour of the reflected ray shaded with the budget decremented by
\* one; when that budget is zero the reflected ray is still shaded on its
\* own and only its further reflection is black.
C12_ReflectionBudget ==
    \A j \in 1..Len(stack) :
        (/\ ReflectiveResult(stack[j])
         /\ ReflectedShading(reflected_ray(stack[j].ray, stack[j].hit.i),
                             stack[j].arg - 1).panic = NoPanic)
        => ColorEq(stack[j].color,
                   add_reflection(
                       LitColour(stack[j].lit, Len(stack[j].lit)),
                       scene.objects[stack[j].hit.index].material.reflectivity,
                       ReflectedShading(reflected_ray(stack[j].ray, stack[j].hit.i),
                                        stack[j].arg - 1).color))

\* what the code returns: the reflected ray called with budget zero is
\* black
C12_ReflectionOfCall ==
    \A j \in 1..Len(stack) :
        (/\ ReflectiveResult(stack[j])
         /\ ReflectedCall(reflected_ray(stack[j].ray, stack[j].hit.i),
                          stack[j].arg - 1).panic = NoPanic)
        => ColorEq(stack[j].color,
                   add_reflection(
                       LitColour(stack[j].lit, Len(stack[j].lit)),
                       scene.objects[stack[j].hit.index].material.reflectivity,
                       ReflectedCall(reflected_ray(stack[j].ray, stack[j].hit.i),
                                     stack[j].arg - 1).color))

\* a call with budget 1 has its result, and its reflected ray shaded on
\* its own is not black
C12_LastBounceLit ==
    \E j \in 1..Len(stack) :
        /\ ReflectiveResult(stack[j])
        /\ stack[j].arg = 1
        /\ OwnShading(reflected_ray(stack[j].ray, stack[j].hit.i)).panic = NoPanic
        /\ ~ColorEq(OwnShading(reflected_ray(stack[j].ray, stack[j].hit.i)).color,
                    BLACK)

(***************************************************************************)
(* Properties of sphere::find_intersection                                 *)
(***************************************************************************)
QueryB ==
    sphere_b(query.ray.dir, VSub(query.ray.o, query.center))

QueryC ==
    sphere_c(VSub(query.ray.o, query.center), query.radius)

\* b*b - 4c
QueryDiscriminant ==
    FSub(FMul(QueryB, QueryB), FMul(I(4), QueryC))

\* the roots of t*t + b*t + c, for a discriminant >= 0
QueryRoots ==
    { FDiv(FSub(FNeg(QueryB), FSqrt(QueryDiscriminant)), I(2)),
      FDiv(FAdd(FNeg(QueryB), FSqrt(QueryDiscriminant)), I(2)) }

NonNegativeRoots ==
    {t \in QueryRoots : FGe(t, Zero)}

\* C13: sphere::find_intersection returns no hit when b*b - 4c is negative
\* or every root is negative; otherwise the distance it returns is the
\* smallest root that is >= 0 (-b/2 when the discriminant is 0), it is >= 0,
\* and the hit point is O + D*t.
C13_SmallestNonNegativeRoot ==
    SphereAnswered =>
        IF FLt(QueryDiscriminant, Zero) THEN answer.value = None
        ELSE IF NonNegativeRoots = {} THEN answer.value = None
        ELSE /\ answer.value.hit
             /\ \E t \in NonNegativeRoots : FEq(answer.value.distance, t)
             /\ \A t \in NonNegativeRoots : FLe(answer.value.distance, t)
             /\ FEq(QueryDiscriminant, Zero)
                   => FEq(answer.value.distance, FDiv(FNeg(QueryB), I(2)))
             /\ FGe(answer.value.distance, Zero)
             /\ answer.value.point =
                   VAdd(query.ray.o, VScale(query.ray.dir, answer.value.distance))

\* a ray that crosses the sphere in front of its origin: both roots are
\* positive and differ, and the nearer one is returned
C13_Witness ==
    /\ SphereAnswered
    /\ FGt(QueryDiscriminant, Zero)
    /\ \A t \in QueryRoots : FGt(t, Zero)
    /\ answer.value.hit
    /\ \E t \in QueryRoots : FLt(answer.value.distance, t)

\* a ray that starts inside the sphere: one root is negative and the other
\* is returned
C13_FromInside ==
    /\ SphereAnswered
    /\ FGt(QueryDiscriminant, Zero)
    /\ \E t \in QueryRoots : FLt(t, Zero)
    /\ answer.value.hit
    /\ FGt(answer.value.distance, Zero)

\* a line that touches the sphere behind the origin of the ray
C13_TangentBehind ==
    /\ SphereAnswered
    /\ FEq(QueryDiscriminant, Zero)
    /\ FGt(QueryB, Zero)
    /\ answer.value = None

\* a line that touches the sphere in front of the origin of the ray
C13_TangentAhead ==
    /\ SphereAnswered
    /\ FEq(QueryDiscriminant, Zero)
    /\ answer.value.hit

====
